---- MODULE Spec2Model ----
(***************************************************************************)
(* A model of src/main.py: the earning bot's store (the SQLite tables of   *)
(* Database.init_db), its database operations (get_or_create_user,         *)
(* add_earning, watch_ad, update_withdrawal_status) and the request        *)
(* handlers that call them (cmd_start, api_watch_ad, api_complete_task,    *)
(* api_withdraw, admin_process_withdrawal, admin_ban_user).                *)
(*                                                                         *)
(* Storage semantics.  Every `async with db.get_connection()` opens its    *)
(* own SQLite connection.  A connection's first INSERT/UPDATE opens a      *)
(* write transaction that holds the database's single write lock until    *)
(* commit; a SELECT outside a transaction reads the committed state.  A    *)
(* handler is therefore modelled as its reads (one step each group of      *)
(* SELECTs made before the first write) followed by ONE step for           *)
(* everything from its first write to its commit: no other connection can  *)
(* write in between, and none can see the uncommitted rows.  A connection  *)
(* that tries to write while ANOTHER connection holds the lock gets        *)
(* "database is locked"; this is certain when the lock holder is the       *)
(* caller itself, suspended in `await add_earning(...)`.                   *)
(*                                                                         *)
(* Money is counted in 1/100 taka.  Time is in seconds, UTC.  Columns that *)
(* are written and never read (created_at, updated_at, approved_at, the    *)
(* names, description, account_number) are left out.                       *)
(***************************************************************************)
EXTENDS Integers, Sequences, FiniteSets, Bags, TLC

(* ---------------------------------------------------------------------- *)
(* Configuration (EARNING_CONFIG, ADMIN_IDS)                               *)
(* ---------------------------------------------------------------------- *)
ad_reward == 500
ad_daily_limit == 10
ad_cooldown == 60
referral_bonus == 1000
min_withdraw == 10000
daily_login_bonus == 500

\* The second admin id, 6375918223, is beyond TLC's integers; no request of
\* the model comes from it.
ADMIN_IDS == {633765043}

Methods == {"bkash", "nagad", "rocket"}

(* ---------------------------------------------------------------------- *)
(* Bounds and input sets                                                   *)
(* ---------------------------------------------------------------------- *)
\* Request handlers that may run at the same time.
NumSlots == 2
\* The clock stops after this many days.
MaxDay == 2
\* 30-second ticks that may follow each coarse point of the clock.
MaxFineTicks == 2
\* Caps on the rows the tables may grow to.
MaxEarnings == 2
MaxWithdrawals == 2
MaxCompletions == 2
\* Times an account may be touched by get_or_create_user on one clock value.
MaxStreak == 4
\* Ads a fresh account may watch (an account one ad short of the daily limit
\* is always let through).
MaxAds == 2

Slots == 1..NumSlots

\* Telegram identities that contact the bot: one admin, one ordinary user.
AdminTg == CHOOSE a \in ADMIN_IDS : a = 633765043
UserTg == CHOOSE u \in {700000001} : TRUE
Identities == {AdminTg, UserTg}

\* None / SQL NULL.
NULL == -1

DaySeconds == 86400
\* The host's local time minus UTC: UTC, Asia/Dhaka (+6h), US Eastern (-5h).
TzOffsets == {0, 21600, 0 - 18000}
\* Points of the day the clock jumps to: 00:00 and 18:00 UTC.
CoarsePoints == {0, 64800}
FineTick == 30

(* ---------------------------------------------------------------------- *)
(* State                                                                   *)
(* ---------------------------------------------------------------------- *)
VARIABLES
    users,        \* table users: a sequence, users[i] is the row with id = i
    earnings,     \* table earnings (the ledger): a bag of rows
    tasks,        \* table tasks: a sequence, tasks[i] is the row with id = i
    user_tasks,   \* table user_tasks: a bag of [user_id, task_id, day]
    referrals,    \* table referrals: a sequence, referrals[i] has id = i
    withdrawals,  \* table withdrawals: a sequence, withdrawals[i] has id = i
    now,          \* the clock, seconds UTC
    tz,           \* the host's local time minus UTC, fixed for a run
    req           \* req[s]: the request handler running in slot s

db == <<users, earnings, tasks, user_tasks, referrals, withdrawals>>
vars == <<users, earnings, tasks, user_tasks, referrals, withdrawals, now, tz, req>>

(* ---------------------------------------------------------------------- *)
(* Clocks: SQLite's DATE('now') / CURRENT_TIMESTAMP are UTC, Python's      *)
(* datetime.now() is the host's local time.                                *)
(* ---------------------------------------------------------------------- *)
SqlDateNow == now \div DaySeconds
SqlTimestampNow == now
PyNow == now + tz
PyToday == PyNow \div DaySeconds

(* ---------------------------------------------------------------------- *)
(* Rows                                                                    *)
(* ---------------------------------------------------------------------- *)
NoUser == [id |-> 0, telegram_id |-> NULL, balance |-> 0, total_earned |-> 0,
           total_withdrawn |-> 0, ads_watched_today |-> 0, ads_watched_total |-> 0,
           referral_id |-> NULL, referred_by |-> NULL, referral_count |-> 0,
           active_referrals |-> 0, last_ad_watch |-> NULL, login_streak |-> 0,
           last_login |-> NULL, last_login_date |-> NULL, is_banned |-> FALSE]

\* The row INSERT INTO users creates (schema defaults included).  The
\* referral code secrets.token_urlsafe(8)[:8] is modelled by the owner's
\* telegram id: one distinct code per account.
NewUserRow(i, telegram_id, referred_by) ==
    [NoUser EXCEPT !.id = i, !.telegram_id = telegram_id,
                   !.referral_id = telegram_id, !.referred_by = referred_by,
                   !.login_streak = 1, !.last_login = SqlTimestampNow,
                   !.last_login_date = SqlDateNow]

EarningRow(user_id, amount, type, task_id, referral_id) ==
    [user_id |-> user_id, amount |-> amount, type |-> type,
     task_id |-> task_id, referral_id |-> referral_id]

\* The sample task init_db inserts first: "YouTube Subscribe", reward 10.
SampleTasks == << [id |-> 1, reward |-> 1000, is_active |-> TRUE,
                   daily_limit |-> 1, total_completions |-> 0] >>

UserIds == 1..Len(users)

\* SELECT * FROM users WHERE telegram_id = ?  (NoUser when there is no row)
SelectUserByTelegramId(telegram_id) ==
    IF \E i \in UserIds : users[i].telegram_id = telegram_id
    THEN users[CHOOSE i \in UserIds : users[i].telegram_id = telegram_id]
    ELSE NoUser

\* SELECT id FROM users WHERE referral_id = ?
SelectIdByReferralCode(code) ==
    IF \E i \in UserIds : users[i].referral_id = code
    THEN CHOOSE i \in UserIds : users[i].referral_id = code
    ELSE 0

(* ---------------------------------------------------------------------- *)
(* Request slots                                                           *)
(* ---------------------------------------------------------------------- *)
Idle == [pc |-> "idle", op |-> "none", tg |-> NULL, code |-> NULL,
         user |-> NoUser, arg |-> NULL, str |-> "none", n |-> NULL,
         sent |-> NULL, res |-> "none"]

\* The handler in slot s is at step p.  A finished handler's response is
\* sent (Return) before any other step is taken.
At(s, p) == req[s].pc = p /\ \A t \in Slots : req[t].pc # "done"

\* A request is taken by the lowest free slot.
Free(s) == At(s, "idle") /\ \A t \in Slots : t < s => req[t].pc # "idle"

\* A slot is set to r; the other slots are left alone.
SetReq(s, r) == req' = [req EXCEPT ![s] = r]

\* The handler in slot s ends with result r.
Done(s, r) == SetReq(s, [req[s] EXCEPT !.pc = "done", !.res = r])

(* ---------------------------------------------------------------------- *)
(* add_earning                                                             *)
(* ---------------------------------------------------------------------- *)
\* UPDATE users SET balance = balance + ?, total_earned = total_earned + ?
\* WHERE id = ?
CreditUsers(us, user_id, amount) ==
    [i \in DOMAIN us |->
        IF us[i].id = user_id
        THEN [us[i] EXCEPT !.balance = @ + amount, !.total_earned = @ + amount]
        ELSE us[i]]

\* UPDATE referrals SET bonus_paid = TRUE WHERE id = ?
MarkBonusPaid(rs, referral_id) ==
    [i \in DOMAIN rs |->
        IF i = referral_id THEN [rs[i] EXCEPT !.bonus_paid = TRUE] ELSE rs[i]]

\* add_earning on its own connection, given the committed tables.  When the
\* caller's connection holds the write lock (caller_holds_lock), the INSERT
\* raises "database is locked", the bare except rolls back and the function
\* returns False; otherwise the three statements commit together.
add_earning(us, es, rs, user_id, amount, earning_type, task_id, referral_id, caller_holds_lock) ==
    IF caller_holds_lock
    THEN [users |-> us, earnings |-> es, referrals |-> rs, ok |-> FALSE]
    ELSE [users |-> CreditUsers(us, user_id, amount),
          earnings |-> es (+) SetToBag({EarningRow(user_id, amount, earning_type,
                                                   task_id, referral_id)}),
          referrals |-> IF earning_type = "referral" /\ referral_id # NULL
                        THEN MarkBonusPaid(rs, referral_id) ELSE rs,
          ok |-> TRUE]

(* ---------------------------------------------------------------------- *)
(* get_or_create_user                                                      *)
(* ---------------------------------------------------------------------- *)
\* Where a handler goes once get_or_create_user has returned.
AfterUser(op) ==
    CASE op = "watch_ad" -> "watch_ad_read"
      [] op = "complete_task" -> "complete_task_read"
      [] op = "withdraw" -> "withdraw"
      [] op = "process_withdrawal" -> "process_withdrawal"
      [] OTHER -> "done"

\* SELECT * FROM users WHERE telegram_id = ?
get_or_create_user_read(s) ==
    /\ At(s, "user_read")
    /\ LET user == SelectUserByTelegramId(req[s].tg) IN
       SetReq(s, [req[s] EXCEPT !.user = user,
                                !.pc = IF user.id # 0 THEN "user_update"
                                                      ELSE "user_insert"])
    /\ UNCHANGED <<db, now, tz>>

\* The streak the existing-user branch computes from the row it read.
NewStreak(user, today) ==
    IF user.last_login_date # NULL /\ user.last_login_date = today
    THEN user.login_streak
    ELSE IF user.last_login_date # NULL /\ today - user.last_login_date = 1
         THEN user.login_streak + 1
         ELSE 1

\* if last_login is None or last_login.date() != today
BonusDue(user, today) ==
    user.last_login_date = NULL \/ user.last_login_date # today

\* The login UPDATE also setting the first account as the referrer of a
\* touched account that has none.
UpdateLoginAdopting(us, telegram_id, streak) ==
    [i \in DOMAIN us |->
        IF us[i].telegram_id = telegram_id
        THEN [us[i] EXCEPT !.last_login = SqlTimestampNow,
                           !.last_login_date = SqlDateNow, !.login_streak = streak,
                           !.referred_by = IF @ = NULL /\ us[i].id # 1
                                           THEN 1 ELSE @]
        ELSE us[i]]

\* UPDATE users SET last_login = CURRENT_TIMESTAMP,
\*     last_login_date = DATE('now'), login_streak = ? WHERE telegram_id = ?
UpdateLogin(us, telegram_id, streak) ==
    [i \in DOMAIN us |->
        IF us[i].telegram_id = telegram_id
        THEN [us[i] EXCEPT !.last_login = SqlTimestampNow,
                           !.last_login_date = SqlDateNow, !.login_streak = streak]
        ELSE us[i]]

\* The existing-user branch from its UPDATE to its commit.  The daily bonus
\* is add_earning(telegram_id, ...), called while this connection's UPDATE
\* is uncommitted.  The function returns the row read BEFORE the update.
get_or_create_user_update(s) ==
    /\ At(s, "user_update")
    /\ LET user == req[s].user
           today == PyToday
           streak == NewStreak(user, today)
           bonus == IF BonusDue(user, today)
                    THEN add_earning(users, earnings, referrals, req[s].tg,
                                     daily_login_bonus, "bonus", NULL, NULL, TRUE)
                    ELSE [users |-> users, earnings |-> earnings,
                          referrals |-> referrals, ok |-> FALSE]
       IN /\ users' = UpdateLogin(bonus.users, req[s].tg, streak)
          /\ earnings' = bonus.earnings
          /\ referrals' = bonus.referrals
    /\ IF AfterUser(req[s].op) = "done"
       THEN Done(s, "ok")
       ELSE SetReq(s, [req[s] EXCEPT !.pc = AfterUser(req[s].op)])
    /\ UNCHANGED <<tasks, user_tasks, withdrawals, now, tz>>

\* The resolution with an unmatched code falling back to the first account.
ResolveReferrerDefaulting(referral_code) ==
    IF referral_code = NULL THEN 0
    ELSE IF SelectIdByReferralCode(referral_code) # 0
    THEN SelectIdByReferralCode(referral_code)
    ELSE 1

\* The referrer the new-user branch resolves (0: none).
ResolveReferrer(referral_code) ==
    IF referral_code # NULL THEN SelectIdByReferralCode(referral_code) ELSE 0

\* UPDATE users SET referral_count = referral_count + 1,
\*                  active_referrals = active_referrals + 1 WHERE id = ?
CountReferral(us, referrer) ==
    [i \in DOMAIN us |->
        IF us[i].id = referrer
        THEN [us[i] EXCEPT !.referral_count = @ + 1, !.active_referrals = @ + 1]
        ELSE us[i]]

\* The new-user branch: INSERT INTO users, INSERT INTO referrals, the
\* referrer's counters, commit, and the re-read of the new row.  The INSERT
\* fails on UNIQUE(telegram_id) when another handler created the account
\* after this one's SELECT; nothing catches that error.
get_or_create_user_insert(s) ==
    /\ At(s, "user_insert")
    /\ IF SelectUserByTelegramId(req[s].tg).id # 0
       THEN /\ Done(s, "IntegrityError")
            /\ UNCHANGED db
       ELSE LET referrer == ResolveReferrer(req[s].code)
                row == NewUserRow(Len(users) + 1, req[s].tg,
                                  IF referrer # 0 THEN referrer ELSE NULL)
            IN /\ users' = IF referrer # 0
                           THEN CountReferral(Append(users, row), referrer)
                           ELSE Append(users, row)
               /\ referrals' = IF referrer # 0
                               THEN Append(referrals,
                                           [referrer_id |-> referrer,
                                            referred_id |-> req[s].tg,
                                            is_active |-> TRUE,
                                            bonus_paid |-> FALSE])
                               ELSE referrals
               /\ IF AfterUser(req[s].op) = "done"
                  THEN SetReq(s, [req[s] EXCEPT !.user = row, !.pc = "done",
                                                !.res = "created"])
                  ELSE SetReq(s, [req[s] EXCEPT !.user = row,
                                                !.pc = AfterUser(req[s].op)])
               /\ UNCHANGED <<earnings, tasks, user_tasks, withdrawals>>
    /\ UNCHANGED <<now, tz>>

(* ---------------------------------------------------------------------- *)
(* watch_ad                                                                *)
(* ---------------------------------------------------------------------- *)
\* The eligibility checks with the row selected by WHERE id = ? alone.
WatchAdDecisionAnyRow(user_id) ==
    IF user_id \notin UserIds
    THEN "User not found or banned"
    ELSE IF users[user_id].ads_watched_today >= ad_daily_limit
    THEN "Daily ad limit reached"
    ELSE IF /\ users[user_id].last_ad_watch # NULL
            /\ PyNow - users[user_id].last_ad_watch < ad_cooldown
    THEN "Please wait"
    ELSE "eligible"

\* SELECT ads_watched_today, last_ad_watch FROM users
\* WHERE id = ? AND is_banned = FALSE, then the limit and cooldown checks.
\* The cooldown compares datetime.now() (local) with the stored UTC stamp.
WatchAdDecision(user_id) ==
    IF ~(user_id \in UserIds /\ ~users[user_id].is_banned)
    THEN "User not found or banned"
    ELSE IF users[user_id].ads_watched_today >= ad_daily_limit
    THEN "Daily ad limit reached"
    ELSE IF /\ users[user_id].last_ad_watch # NULL
            /\ PyNow - users[user_id].last_ad_watch < ad_cooldown
    THEN "Please wait"
    ELSE "eligible"

\* The part of a second, in milliseconds, that datetime.now() carries beyond
\* the whole seconds of the clock; CURRENT_TIMESTAMP stores whole seconds.
SubSecond == {0, 500}

\* int(remaining.total_seconds()) for
\* remaining = cooldown - (datetime.now() - last_watch).
RemainingSeconds(user_id, frac) ==
    (ad_cooldown * 1000
       - ((PyNow - users[user_id].last_ad_watch) * 1000 + frac)) \div 1000

\* A cooldown denial leaves the number of seconds of its message in n.
watch_ad_read(s) ==
    /\ At(s, "watch_ad_read")
    /\ LET d == WatchAdDecision(req[s].user.id) IN
       IF d = "eligible"
       THEN SetReq(s, [req[s] EXCEPT !.pc = "watch_ad_write",
                         !.n = users[req[s].user.id].ads_watched_today])
       ELSE IF d = "Please wait"
       THEN \E frac \in SubSecond :
               SetReq(s, [req[s] EXCEPT !.pc = "done", !.res = d,
                             !.n = RemainingSeconds(req[s].user.id, frac)])
       ELSE Done(s, d)
    /\ UNCHANGED <<db, now, tz>>

\* UPDATE users SET balance = balance + ?, ... WHERE id = ?
WatchAdUpdate(us, user_id, reward) ==
    [i \in DOMAIN us |->
        IF us[i].id = user_id
        THEN [us[i] EXCEPT !.balance = @ + reward,
                           !.total_earned = @ + reward,
                           !.ads_watched_today = @ + 1,
                           !.ads_watched_total = @ + 1,
                           !.last_ad_watch = SqlTimestampNow]
        ELSE us[i]]

\* The UPDATE, the INSERT INTO earnings and the commit.
watch_ad_write(s) ==
    /\ At(s, "watch_ad_write")
    /\ users' = WatchAdUpdate(users, req[s].user.id, ad_reward)
    /\ earnings' = earnings (+) SetToBag({EarningRow(req[s].user.id, ad_reward,
                                                     "ad", NULL, NULL)})
    /\ Done(s, "success")
    /\ UNCHANGED <<tasks, user_tasks, referrals, withdrawals, now, tz>>

(* ---------------------------------------------------------------------- *)
(* api_complete_task                                                       *)
(* ---------------------------------------------------------------------- *)
CompletionRow(user_id, task_id) ==
    [user_id |-> user_id, task_id |-> task_id, day |-> SqlDateNow]

\* COUNT(*) of today's completions of the task by the user.
CompletionsToday(user_id, task_id) ==
    CopiesIn(CompletionRow(user_id, task_id), user_tasks)

\* The three SELECTs before the INSERT: the active task, today's
\* completion row, today's completion count.
CompleteTaskDecision(user_id, task_id) ==
    IF ~(task_id \in DOMAIN tasks /\ tasks[task_id].is_active)
    THEN "Task not found"
    ELSE IF CompletionsToday(user_id, task_id) > 0
    THEN "Already completed today"
    ELSE IF CompletionsToday(user_id, task_id) >= tasks[task_id].daily_limit
    THEN "Daily limit reached"
    ELSE "eligible"

api_complete_task_read(s) ==
    /\ At(s, "complete_task_read")
    /\ LET d == CompleteTaskDecision(req[s].user.id, req[s].arg) IN
       IF d = "eligible"
       THEN SetReq(s, [req[s] EXCEPT !.pc = "complete_task_write",
                                     !.n = tasks[req[s].arg].reward])
       ELSE Done(s, d)
    /\ UNCHANGED <<db, now, tz>>

\* UPDATE tasks SET total_completions = total_completions + 1 WHERE id = ?
CountCompletion(ts, task_id) ==
    [i \in DOMAIN ts |->
        IF i = task_id THEN [ts[i] EXCEPT !.total_completions = @ + 1] ELSE ts[i]]

\* From INSERT INTO user_tasks to the commit.  The schema declares
\* UNIQUE(user_id, task_id, DATE(completed_at)): a second row of the day
\* raises IntegrityError, which nothing catches.  add_earning is called
\* while this connection's INSERT is uncommitted; its result is ignored.
api_complete_task_write(s) ==
    /\ At(s, "complete_task_write")
    /\ IF CompletionsToday(req[s].user.id, req[s].arg) > 0
       THEN /\ Done(s, "IntegrityError")
            /\ UNCHANGED db
       ELSE LET earned == add_earning(users, earnings, referrals, req[s].user.id,
                                      req[s].n, "task", req[s].arg, NULL, TRUE)
            IN /\ user_tasks' = user_tasks (+)
                                SetToBag({CompletionRow(req[s].user.id, req[s].arg)})
               /\ users' = earned.users
               /\ earnings' = earned.earnings
               /\ referrals' = earned.referrals
               /\ tasks' = CountCompletion(tasks, req[s].arg)
               /\ Done(s, "success")
               /\ UNCHANGED withdrawals
    /\ UNCHANGED <<now, tz>>

(* ---------------------------------------------------------------------- *)
(* api_withdraw                                                            *)
(* ---------------------------------------------------------------------- *)
\* The validation with the minimum itself refused.
WithdrawDecisionAboveMinimum(user, amount, method) ==
    IF amount <= min_withdraw THEN "Minimum withdrawal"
    ELSE IF user.balance < amount THEN "Insufficient balance"
    ELSE IF method \notin Methods THEN "Invalid method"
    ELSE "submitted"

\* The validation, made on the row get_or_create_user returned.
WithdrawDecision(user, amount, method) ==
    IF amount < min_withdraw THEN "Minimum withdrawal"
    ELSE IF user.balance < amount THEN "Insufficient balance"
    ELSE IF method \notin Methods THEN "Invalid method"
    ELSE "submitted"

api_withdraw(s) ==
    /\ At(s, "withdraw")
    /\ LET d == WithdrawDecision(req[s].user, req[s].arg, req[s].str) IN
       /\ withdrawals' =
             IF d = "submitted"
             THEN Append(withdrawals,
                         [user_id |-> req[s].user.id, amount |-> req[s].arg,
                          method |-> req[s].str, status |-> "pending",
                          admin_notes |-> "NULL", approved_by |-> NULL,
                          approved_at |-> NULL])
             ELSE withdrawals
       /\ Done(s, d)
    /\ UNCHANGED <<users, earnings, tasks, user_tasks, referrals, now, tz>>

(* ---------------------------------------------------------------------- *)
(* update_withdrawal_status / admin_process_withdrawal                     *)
(* ---------------------------------------------------------------------- *)
\* UPDATE withdrawals SET status = ?, approved_by = ?,
\*     approved_at = CURRENT_TIMESTAMP, admin_notes = ? WHERE id = ?
SetWithdrawalStatus(ws, withdrawal_id, status, admin_id, notes) ==
    [i \in DOMAIN ws |->
        IF i = withdrawal_id
        THEN [ws[i] EXCEPT !.status = status, !.approved_by = admin_id,
                           !.approved_at = SqlTimestampNow, !.admin_notes = notes]
        ELSE ws[i]]

\* The deduction without the total_withdrawn column.
DeductUsersBalanceOnly(us, user_id, amount) ==
    [i \in DOMAIN us |->
        IF us[i].id = user_id THEN [us[i] EXCEPT !.balance = @ - amount] ELSE us[i]]

\* UPDATE users SET balance = balance - ?, total_withdrawn = total_withdrawn + ?
\* WHERE id = ?
DeductUsers(us, user_id, amount) ==
    [i \in DOMAIN us |->
        IF us[i].id = user_id
        THEN [us[i] EXCEPT !.balance = @ - amount, !.total_withdrawn = @ + amount]
        ELSE us[i]]

\* The function with a failed notification reaching the outer handler,
\* which rolls back and returns False.
update_withdrawal_status_unswallowed(us, ws, withdrawal_id, status, admin_id, notes, notified) ==
    IF ~notified /\ withdrawal_id \in DOMAIN ws
    THEN [withdrawals |-> ws, users |-> us, ok |-> FALSE]
    ELSE [withdrawals |-> SetWithdrawalStatus(ws, withdrawal_id, status, admin_id, notes),
          users |-> IF status = "approved" /\ withdrawal_id \in DOMAIN ws
                    THEN DeductUsers(us, ws[withdrawal_id].user_id,
                                     ws[withdrawal_id].amount)
                    ELSE us,
          ok |-> TRUE]

\* The function with the deduction made for either status.
update_withdrawal_status_deducting(us, ws, withdrawal_id, status, admin_id, notes, notified) ==
    [withdrawals |-> SetWithdrawalStatus(ws, withdrawal_id, status, admin_id, notes),
     users |-> IF withdrawal_id \in DOMAIN ws
               THEN DeductUsers(us, ws[withdrawal_id].user_id, ws[withdrawal_id].amount)
               ELSE us,
     ok |-> TRUE]

\* update_withdrawal_status: its first statement is the UPDATE, so the whole
\* function is one write transaction.  The tables it commits, and its return
\* value.  bot.send_message may raise (notified = FALSE): the error is
\* swallowed.
update_withdrawal_status(us, ws, withdrawal_id, status, admin_id, notes, notified) ==
    IF status = "approved"
    THEN [withdrawals |-> SetWithdrawalStatus(ws, withdrawal_id, status, admin_id, notes),
          users |-> IF withdrawal_id \in DOMAIN ws
                    THEN DeductUsers(us, ws[withdrawal_id].user_id,
                                     ws[withdrawal_id].amount)
                    ELSE us,
          ok |-> TRUE]
    ELSE IF status = "rejected"
    THEN [withdrawals |-> SetWithdrawalStatus(ws, withdrawal_id, status, admin_id, notes),
          users |-> us, ok |-> TRUE]
    ELSE [withdrawals |-> ws, users |-> us, ok |-> TRUE]

Notes == {"paid"}

admin_process_withdrawal(s) ==
    /\ At(s, "process_withdrawal")
    /\ \E notes \in Notes, notified \in BOOLEAN :
         IF req[s].str \notin {"approve", "reject"}
         THEN /\ Done(s, "Invalid action")
              /\ UNCHANGED <<users, withdrawals>>
         ELSE LET status == IF req[s].str = "approve" THEN "approved" ELSE "rejected"
                  r == update_withdrawal_status(users, withdrawals, req[s].arg, status,
                                                req[s].user.id, notes, notified)
              IN /\ users' = r.users
                 /\ withdrawals' = r.withdrawals
                 /\ SetReq(s, [req[s] EXCEPT
                                  !.pc = "done",
                                  !.sent = IF notified THEN 1 ELSE 0,
                                  !.res = IF r.ok THEN status
                                          ELSE "Failed to process withdrawal"])
    /\ UNCHANGED <<earnings, tasks, user_tasks, referrals, now, tz>>

(* ---------------------------------------------------------------------- *)
(* admin_ban_user                                                          *)
(* ---------------------------------------------------------------------- *)
\* The UPDATE setting the flag instead of negating it.
SetBanned(us, user_id) ==
    [i \in DOMAIN us |->
        IF us[i].id = user_id THEN [us[i] EXCEPT !.is_banned = TRUE] ELSE us[i]]

\* UPDATE users SET is_banned = NOT is_banned WHERE id = ?
ToggleBan(us, user_id) ==
    [i \in DOMAIN us |->
        IF us[i].id = user_id THEN [us[i] EXCEPT !.is_banned = ~@] ELSE us[i]]

admin_ban_user(s, telegram_id, user_id) ==
    /\ Free(s)
    /\ IF telegram_id \notin ADMIN_IDS
       THEN /\ SetReq(s, [Idle EXCEPT !.pc = "done", !.op = "ban", !.tg = telegram_id,
                                      !.arg = user_id, !.res = "403"])
            /\ UNCHANGED users
       ELSE /\ users' = ToggleBan(users, user_id)
            /\ SetReq(s, [Idle EXCEPT !.pc = "done", !.op = "ban", !.tg = telegram_id,
                                      !.arg = user_id,
                                      !.res = IF user_id \in UserIds
                                              THEN IF users'[user_id].is_banned
                                                   THEN "banned" ELSE "unbanned"
                                              ELSE "TypeError"])
    /\ UNCHANGED <<earnings, tasks, user_tasks, referrals, withdrawals, now, tz>>

(* ---------------------------------------------------------------------- *)
(* Requests arriving                                                       *)
(* ---------------------------------------------------------------------- *)
\* Slots occupied by a handler of the given kind.
Running(op) == Cardinality({t \in Slots : req[t].op = op})

StreaksBounded == \A i \in UserIds : users[i].login_streak < MaxStreak

\* Every handler below starts with get_or_create_user(telegram_id, ...).
Begin(s, op, telegram_id, code, arg, str, n) ==
    /\ Free(s)
    /\ StreaksBounded
    /\ SetReq(s, [Idle EXCEPT !.pc = "user_read", !.op = op, !.tg = telegram_id,
                              !.code = code, !.arg = arg, !.str = str, !.n = n])
    /\ UNCHANGED <<db, now, tz>>

\* /start [referral_code]
cmd_start(s, telegram_id) ==
    \E code \in Identities \cup {NULL} :
        Begin(s, "start", telegram_id, code, NULL, "none", NULL)

\* POST /api/watch-ad
api_watch_ad(s, telegram_id) ==
        /\ LET u == SelectUserByTelegramId(telegram_id) IN
              \/ u.ads_watched_today + Running("watch_ad") < MaxAds
              \/ u.ads_watched_today >= ad_daily_limit - 1
        /\ Begin(s, "watch_ad", telegram_id, NULL, NULL, "none", NULL)

\* POST /api/complete-task/{task_id}
api_complete_task(s, telegram_id) ==
    \E task_id \in 1..(Len(tasks) + 1) :
        /\ BagCardinality(user_tasks) + Running("complete_task") < MaxCompletions
        /\ Begin(s, "complete_task", telegram_id, NULL, task_id, "none", NULL)

\* POST /api/withdraw {method, amount}
api_withdraw_request(s, telegram_id) ==
    \E amount \in {min_withdraw - 1, min_withdraw},
       method \in {"bkash", "paypal"} :
        /\ Len(withdrawals) + Running("withdraw") < MaxWithdrawals
        /\ Begin(s, "withdraw", telegram_id, NULL, amount, method, NULL)

\* get_pending_withdrawals: the request is on the admin panel's list.
Listed(withdrawal_id) ==
    withdrawal_id \in DOMAIN withdrawals /\ withdrawals[withdrawal_id].status = "pending"

\* POST /api/admin/withdrawals/{withdrawal_id}/{action}: 403 unless admin.
\* The slot remembers in n whether the request was on the list of pending
\* requests when the admin sent the action (1) or not (0).
admin_process_withdrawal_request(s, telegram_id) ==
    \E withdrawal_id \in 1..MaxWithdrawals,
       action \in {"approve", "reject"} :
        /\ \A i \in UserIds : users[i].balance >= 0
        /\ IF telegram_id \in ADMIN_IDS
           THEN Begin(s, "process_withdrawal", telegram_id, NULL, withdrawal_id, action,
                      IF Listed(withdrawal_id) THEN 1 ELSE 0)
           ELSE /\ Free(s)
                /\ SetReq(s, [Idle EXCEPT !.pc = "done", !.op = "process_withdrawal",
                                          !.tg = telegram_id, !.arg = withdrawal_id,
                                          !.str = action, !.res = "403"])
                /\ UNCHANGED <<db, now, tz>>

\* POST /api/admin/user/{user_id}/ban
admin_ban_user_request(s, telegram_id) ==
    \E user_id \in 1..(Len(users) + 1) :
        admin_ban_user(s, telegram_id, user_id)

\* add_earning called on its own by the referral / bonus policy outside this
\* file: a referral bonus for an edge, or a manual credit.
OtherRows == BagCardinality(earnings) - CopiesIn(EarningRow(1, ad_reward, "ad", NULL, NULL), earnings)
                                      - CopiesIn(EarningRow(2, ad_reward, "ad", NULL, NULL), earnings)

add_earning_call(s) ==
    /\ Free(s)
    /\ OtherRows < MaxEarnings
    /\ \E user_id \in UserIds, referral_id \in DOMAIN referrals \cup {NULL} :
         LET type == IF referral_id = NULL THEN "bonus" ELSE "referral"
             amount == IF referral_id = NULL THEN min_withdraw ELSE referral_bonus
             r == add_earning(users, earnings, referrals, user_id, amount, type,
                              NULL, referral_id, FALSE)
         IN /\ users' = r.users
            /\ earnings' = r.earnings
            /\ referrals' = r.referrals
            /\ SetReq(s, [Idle EXCEPT !.pc = "done", !.op = "add_earning",
                                      !.arg = user_id, !.n = referral_id,
                                      !.res = IF r.ok THEN "True" ELSE "False"])
    /\ UNCHANGED <<tasks, user_tasks, withdrawals, now, tz>>

\* The response is sent; the slot is free again.
Return(s) ==
    /\ req[s].pc = "done"
    /\ SetReq(s, Idle)
    /\ UNCHANGED <<db, now, tz>>

(* ---------------------------------------------------------------------- *)
(* The clock                                                               *)
(* ---------------------------------------------------------------------- *)
\* The last coarse point at or before t.
CoarseBase(t) ==
    LET d == t \div DaySeconds
        o == t % DaySeconds
    IN d * DaySeconds + CHOOSE c \in CoarsePoints :
                            c <= o /\ \A c2 \in CoarsePoints : c2 <= o => c2 <= c

\* The first coarse point after t.
NextCoarse(t) ==
    CHOOSE u \in {d * DaySeconds + c : d \in 0..(MaxDay + 1), c \in CoarsePoints} :
        /\ u > t
        /\ \A v \in {d * DaySeconds + c : d \in 0..(MaxDay + 1), c \in CoarsePoints} :
              v > t => u <= v

Tick ==
    /\ \A s \in Slots : req[s].pc = "idle"
    /\ now - CoarseBase(now) < MaxFineTicks * FineTick
    /\ now' = now + FineTick
    /\ UNCHANGED <<db, tz, req>>

Jump ==
    /\ \A s \in Slots : req[s].pc = "idle"
    /\ NextCoarse(now) \div DaySeconds <= MaxDay
    /\ now' = NextCoarse(now)
    /\ UNCHANGED <<db, tz, req>>

(* ---------------------------------------------------------------------- *)
(* The initial state: a running installation on day 1, 00:00 UTC.  One     *)
(* ordinary user registered on day 0 and has since watched no ad, or all   *)
(* but one of the ads the daily limit allows (the counter is never reset,  *)
(* so the ads may have been watched over several days).  The admin has no  *)
(* account yet.                                                            *)
(* ---------------------------------------------------------------------- *)
SeedUser(ads) ==
    [NoUser EXCEPT !.id = 1, !.telegram_id = UserTg, !.referral_id = UserTg,
                   !.login_streak = 1, !.last_login = 0, !.last_login_date = 0,
                   !.ads_watched_today = ads, !.ads_watched_total = ads,
                   !.balance = ads * ad_reward, !.total_earned = ads * ad_reward,
                   !.last_ad_watch = IF ads = 0 THEN NULL ELSE 0]

SeedEarnings(ads) ==
    IF ads = 0 THEN EmptyBag
    ELSE [e \in {EarningRow(1, ad_reward, "ad", NULL, NULL)} |-> ads]

InitWith(ads) ==
    /\ users = << SeedUser(ads) >>
    /\ earnings = SeedEarnings(ads)
    /\ tasks = SampleTasks
    /\ user_tasks = EmptyBag
    /\ referrals = << >>
    /\ withdrawals = << >>
    /\ now = DaySeconds
    /\ tz \in TzOffsets
    /\ req = [s \in Slots |-> Idle]

Init == \E ads \in {0, ad_daily_limit - 1} : InitWith(ads)

\* The installation whose user has watched no ad yet.
InitFresh == InitWith(0)

Next ==
    \/ \E s \in Slots :
          \/ \E telegram_id \in Identities :
                \/ cmd_start(s, telegram_id)
                \/ api_watch_ad(s, telegram_id)
                \/ api_complete_task(s, telegram_id)
                \/ api_withdraw_request(s, telegram_id)
                \/ admin_process_withdrawal_request(s, telegram_id)
                \/ admin_ban_user_request(s, telegram_id)
          \/ add_earning_call(s)
          \/ get_or_create_user_read(s)
          \/ get_or_create_user_update(s)
          \/ get_or_create_user_insert(s)
          \/ watch_ad_read(s)
          \/ watch_ad_write(s)
          \/ api_complete_task_read(s)
          \/ api_complete_task_write(s)
          \/ api_withdraw(s)
          \/ admin_process_withdrawal(s)
          \/ Return(s)
    \/ Tick
    \/ Jump

Spec == Init /\ [][Next]_vars

(* ---------------------------------------------------------------------- *)
(* Specifications of the parts of the program: the same actions, with the  *)
(* requests limited to one family of handlers.                             *)
(* ---------------------------------------------------------------------- *)
UserSteps(s) ==
    \/ get_or_create_user_read(s)
    \/ get_or_create_user_update(s)
    \/ Return(s)

\* Ad watching, banning and the clock.
NextAds ==
    \/ \E s \in Slots :
          \/ api_watch_ad(s, UserTg)
          \/ UserSteps(s)
          \/ watch_ad_read(s)
          \/ watch_ad_write(s)
    \/ Tick
    \/ Jump

SpecAds == Init /\ [][NextAds]_vars

\* Credits, withdrawal requests and their resolution.
NextWithdraw ==
    \E s \in Slots :
        \/ add_earning_call(s)
        \/ api_withdraw_request(s, UserTg)
        \/ admin_process_withdrawal_request(s, AdminTg)
        \/ UserSteps(s)
        \/ get_or_create_user_insert(s)
        \/ api_withdraw(s)
        \/ admin_process_withdrawal(s)

SpecWithdraw == InitFresh /\ [][NextWithdraw]_vars

\* Registration, logins and the calendar.
NextLogin ==
    \/ \E s \in Slots :
          \/ \E telegram_id \in Identities : cmd_start(s, telegram_id)
          \/ UserSteps(s)
          \/ get_or_create_user_insert(s)
    \/ Jump

SpecLogin == InitFresh /\ [][NextLogin]_vars

\* Task completion and the calendar.
NextTasks ==
    \/ \E s \in Slots :
          \/ api_complete_task(s, UserTg)
          \/ UserSteps(s)
          \/ api_complete_task_read(s)
          \/ api_complete_task_write(s)
    \/ Jump

SpecTasks == InitFresh /\ [][NextTasks]_vars

\* Banning: the admin toggles bans while the user watches ads and
\* add_earning is called for the accounts.
NextBan ==
    \/ \E s \in Slots :
          \/ admin_ban_user_request(s, AdminTg)
          \/ api_watch_ad(s, UserTg)
          \/ add_earning_call(s)
          \/ UserSteps(s)
          \/ watch_ad_read(s)
          \/ watch_ad_write(s)
    \/ Tick

SpecBan == Init /\ [][NextBan]_vars

\* Banning and ad watching alone.
NextBanWatch ==
    \/ \E s \in Slots :
          \/ admin_ban_user_request(s, AdminTg)
          \/ api_watch_ad(s, UserTg)
          \/ UserSteps(s)
          \/ watch_ad_read(s)
          \/ watch_ad_write(s)
    \/ Tick

SpecBanWatch == Init /\ [][NextBanWatch]_vars

\* Creating withdrawal requests: the user is credited and asks for money.
NextCreate ==
    \E s \in Slots :
        \/ add_earning_call(s)
        \/ api_withdraw_request(s, UserTg)
        \/ UserSteps(s)
        \/ api_withdraw(s)

SpecCreate == InitFresh /\ [][NextCreate]_vars

\* Referrals: /start with and without referral codes at one moment, and
\* add_earning called for the accounts and the referral edges.
NextReferral ==
    \E s \in Slots :
        \/ \E telegram_id \in Identities : cmd_start(s, telegram_id)
        \/ add_earning_call(s)
        \/ UserSteps(s)
        \/ get_or_create_user_insert(s)

SpecReferral == InitFresh /\ [][NextReferral]_vars

(* ---------------------------------------------------------------------- *)
(* Properties                                                              *)
(* ---------------------------------------------------------------------- *)
RECURSIVE SumBag(_, _)
SumBag(b, S) ==
    IF S = {} THEN 0
    ELSE LET e == CHOOSE x \in S : TRUE
         IN e.amount * CopiesIn(e, b) + SumBag(b, S \ {e})

\* The sum of the amounts of the ledger rows of account i.
LedgerSum(i) == SumBag(earnings, {e \in BagToSet(earnings) : e.user_id = i})

RECURSIVE SumApproved(_, _)
SumApproved(i, k) ==
    IF k = 0 THEN 0
    ELSE SumApproved(i, k - 1)
         + (IF withdrawals[k].user_id = i /\ withdrawals[k].status = "approved"
            THEN withdrawals[k].amount ELSE 0)

\* The sum of the amounts of the approved withdrawal requests of account i.
ApprovedSum(i) == SumApproved(i, Len(withdrawals))

\* C1: every account's balance equals the sum of its ledger entries minus
\* the sum of its approved withdrawal requests.
C1_BalanceIsLedgerMinusApproved ==
    \A i \in UserIds : users[i].balance = LedgerSum(i) - ApprovedSum(i)

\* The handler in slot s takes its resolving step on request w.
Resolves(s, w, action) ==
    /\ At(s, "process_withdrawal")
    /\ req[s].arg = w
    /\ req[s].str = action
    /\ req'[s].pc = "done"

\* C2: an approval of a pending request whose owner's balance is below the
\* request amount fails with an error and changes neither a balance nor a
\* request (so no balance becomes negative).
C2_ApprovalRevalidatesBalance ==
    [][\A s \in Slots : \A w \in DOMAIN withdrawals :
          (/\ Resolves(s, w, "approve")
           /\ withdrawals[w].status = "pending"
           /\ users[withdrawals[w].user_id].balance < withdrawals[w].amount)
          => (/\ req'[s].res # "approved"
              /\ users' = users
              /\ withdrawals' = withdrawals)]_vars

\* C3: a request that is approved or rejected keeps its status, approver
\* and notes, and resolving it again is answered with an error and leaves
\* the accounts unchanged.
C3_TerminalStatusIsFinal ==
    [][\A w \in DOMAIN withdrawals :
          withdrawals[w].status \in {"approved", "rejected"}
          => (/\ withdrawals'[w] = withdrawals[w]
              /\ \A s \in Slots :
                    (Resolves(s, w, "approve") \/ Resolves(s, w, "reject"))
                    => (req'[s].res \notin {"approved", "rejected"} /\ users' = users))]_vars

\* C4: of two approve calls sent for the same pending request while both
\* are running, the one that finds the request already approved by the
\* other returns an error and changes no balance and no total_withdrawn.
C4_ConcurrentApprovalsOnce ==
    [][\A s \in Slots : \A w \in DOMAIN withdrawals :
          (/\ Resolves(s, w, "approve")
           /\ req[s].n = 1
           /\ withdrawals[w].status = "approved")
          => (req'[s].res # "approved" /\ users' = users)]_vars

\* C5: of the concurrent watch_ad calls that found the account one ad short
\* of the daily limit, one succeeds: a success leaves ads_watched_today at
\* the limit, the account credited once.
C5_OneSuccessAtLimit ==
    [][\A s \in Slots :
          (/\ At(s, "watch_ad_write")
           /\ req[s].n = ad_daily_limit - 1
           /\ req'[s].res = "success")
          => (/\ users'[req[s].user.id].ads_watched_today = ad_daily_limit
              /\ users'[req[s].user.id].balance = ad_daily_limit * ad_reward)]_vars

\* The stored last touch of account i and this moment fall on one calendar
\* day, on the UTC calendar and on the host's local calendar alike.
SameDayAsLastLogin(i) ==
    /\ users[i].last_login # NULL
    /\ users[i].last_login \div DaySeconds = now \div DaySeconds
    /\ (users[i].last_login + tz) \div DaySeconds = (now + tz) \div DaySeconds

\* C6: a get_or_create_user call on an existing account already touched on
\* this calendar day leaves its login_streak, balance, total_earned and the
\* ledger as they were.
C6_SameDayTouchIsIdempotent ==
    [][\A s \in Slots :
          (/\ At(s, "user_update")
           /\ req'[s].pc # "user_update"
           /\ SameDayAsLastLogin(req[s].user.id))
          => (/\ users'[req[s].user.id].login_streak
                    = users[req[s].user.id].login_streak
              /\ users'[req[s].user.id].balance = users[req[s].user.id].balance
              /\ users'[req[s].user.id].total_earned
                    = users[req[s].user.id].total_earned
              /\ earnings' = earnings)]_vars

\* C7: a successful completion of a task raises the account's balance by
\* the task's reward, a denied one changes nothing, and no (account, task,
\* day) has more than one completion row.
C7_TaskCompletionCreditsOnce ==
    [][\A s \in Slots :
          /\ (At(s, "complete_task_write") /\ req'[s].res = "success")
             => users'[req[s].user.id].balance
                   = users[req[s].user.id].balance + tasks[req[s].arg].reward
          /\ (At(s, "complete_task_read") /\ req'[s].pc = "done") => db' = db
          /\ \A r \in BagToSet(user_tasks') : CopiesIn(r, user_tasks') <= 1]_vars

RECURSIVE CountBag(_, _)
CountBag(b, S) ==
    IF S = {} THEN 0
    ELSE LET e == CHOOSE x \in S : TRUE
         IN CopiesIn(e, b) + CountBag(b, S \ {e})

\* The ledger entries of kind task of account i that reference task t.
TaskEarnings(i, t) ==
    CountBag(earnings, {e \in BagToSet(earnings) :
                           e.user_id = i /\ e.type = "task" /\ e.task_id = t})

\* The completion rows of account i for task t, over all days.
TaskCompletions(i, t) ==
    CountBag(user_tasks, {r \in BagToSet(user_tasks) :
                             r.user_id = i /\ r.task_id = t})

\* C8: for every account and task, the number of completion rows equals
\* the number of the account's task ledger entries for that task.
C8_CompletionRowsMatchLedger ==
    \A i \in UserIds : \A t \in DOMAIN tasks :
        TaskCompletions(i, t) = TaskEarnings(i, t)

\* C9: a watch_ad call that finds the account not banned, under the daily
\* limit and either never watched or last watched at least ad_cooldown
\* seconds ago passes the eligibility checks.
C9_EligibleWatchSucceeds ==
    [][\A s \in Slots :
          (/\ At(s, "watch_ad_read")
           /\ req'[s].pc # "watch_ad_read"
           /\ req[s].user.id \in UserIds
           /\ ~users[req[s].user.id].is_banned
           /\ users[req[s].user.id].ads_watched_today < ad_daily_limit
           /\ \/ users[req[s].user.id].last_ad_watch = NULL
              \/ now - users[req[s].user.id].last_ad_watch >= ad_cooldown)
          => req'[s].pc = "watch_ad_write"]_vars

\* C10: no account's ads_watched_today exceeds ad_daily_limit.
C10_AdsWithinDailyLimit ==
    \A i \in UserIds : users[i].ads_watched_today <= ad_daily_limit

\* C11: a watch_ad call succeeds only when the account never watched an ad
\* or last watched one at least ad_cooldown seconds ago, so two successes
\* of one account are at least ad_cooldown seconds apart.
C11_SuccessesCooldownApart ==
    [][\A s \in Slots :
          (At(s, "watch_ad_write") /\ req'[s].res = "success")
          => \/ users[req[s].user.id].last_ad_watch = NULL
             \/ now - users[req[s].user.id].last_ad_watch >= ad_cooldown]_vars

\* The last ad watch of account i was on an earlier calendar day than this
\* moment, on the UTC calendar and on the host's local calendar alike.
LastWatchOnEarlierDay(i) ==
    /\ users[i].last_ad_watch # NULL
    /\ users[i].last_ad_watch \div DaySeconds < now \div DaySeconds
    /\ (users[i].last_ad_watch + tz) \div DaySeconds < (now + tz) \div DaySeconds

\* C12: the first watch_ad call of a day on an account that is not banned
\* is not denied for the daily limit, whatever the account watched on the
\* days before.
C12_DailyLimitResetsEachDay ==
    [][\A s \in Slots :
          (/\ At(s, "watch_ad_read")
           /\ req[s].user.id \in UserIds
           /\ ~users[req[s].user.id].is_banned
           /\ LastWatchOnEarlierDay(req[s].user.id))
          => req'[s].res # "Daily ad limit reached"]_vars

\* C13: a watch_ad call that finds the account banned is denied and writes
\* nothing: no account field and no ledger entry changes.
C13_BannedWatchDenied ==
    [][\A s \in Slots :
          (/\ At(s, "watch_ad_read")
           /\ req'[s] # req[s]
           /\ req[s].user.id \in UserIds
           /\ users[req[s].user.id].is_banned)
          => (/\ req'[s].pc = "done"
              /\ req'[s].res = "User not found or banned"
              /\ db' = db)]_vars

\* A watch_ad call on a banned account with ads watched before has been
\* denied.
C13_BannedWatchWasDenied ==
    \E s \in Slots :
        /\ req[s].pc = "done"
        /\ req[s].op = "watch_ad"
        /\ req[s].res = "User not found or banned"
        /\ users[req[s].user.id].is_banned
        /\ users[req[s].user.id].ads_watched_today > 0

\* C14: add_earning for a banned account returns False and writes nothing.
C14_BannedAccountEarnsNothing ==
    [][\A s \in Slots :
          (/\ req[s].pc = "idle"
           /\ req'[s].op = "add_earning"
           /\ users[req'[s].arg].is_banned)
          => (req'[s].res = "False" /\ db' = db)]_vars

\* The whole calendar days between the stored last touch of account i and
\* this moment, when the UTC calendar and the host's local calendar agree
\* on them; NULL when they disagree or the account was never touched.
DaysSinceLastLogin(i) ==
    IF users[i].last_login = NULL THEN NULL
    ELSE LET utc == now \div DaySeconds - users[i].last_login \div DaySeconds
             local == (now + tz) \div DaySeconds
                      - (users[i].last_login + tz) \div DaySeconds
         IN IF utc = local THEN utc ELSE NULL

\* The existing-user branch in slot s runs from its UPDATE to its commit.
Touches(s) ==
    /\ At(s, "user_update")
    /\ req'[s] # req[s]

\* C15: a touch one calendar day after the last one raises login_streak by
\* one, a touch after a longer gap sets it to 1, and a created account
\* starts at 1.
C15_StreakFollowsCalendar ==
    [][\A s \in Slots :
          /\ (Touches(s) /\ DaysSinceLastLogin(req[s].user.id) = 1)
             => users'[req[s].user.id].login_streak
                   = users[req[s].user.id].login_streak + 1
          /\ (Touches(s) /\ DaysSinceLastLogin(req[s].user.id) > 1)
             => users'[req[s].user.id].login_streak = 1
          /\ Len(users') > Len(users) => users'[Len(users')].login_streak = 1]_vars

\* The ledger rows of kind bonus of account i.
BonusEarnings(i, es) ==
    CopiesIn(EarningRow(i, daily_login_bonus, "bonus", NULL, NULL), es)

\* C16: a touch on a later calendar day than the last one credits
\* daily_login_bonus to the touched account, appends one bonus ledger row
\* owned by it, and changes no other account's balance.
C16_NewDayBonusToSameAccount ==
    [][\A s \in Slots :
          (Touches(s) /\ DaysSinceLastLogin(req[s].user.id) >= 1)
          => (/\ users'[req[s].user.id].balance
                    = users[req[s].user.id].balance + daily_login_bonus
              /\ users'[req[s].user.id].total_earned
                    = users[req[s].user.id].total_earned + daily_login_bonus
              /\ BonusEarnings(req[s].user.id, earnings')
                    = BonusEarnings(req[s].user.id, earnings) + 1
              /\ \A j \in UserIds \ {req[s].user.id} :
                    users'[j].balance = users[j].balance)]_vars

\* C17: a touch advances the stored last_login_date exactly when it appends
\* the bonus ledger row of the touched account.
C17_LoginAndBonusTogether ==
    [][\A s \in Slots :
          Touches(s)
          => ((users'[req[s].user.id].last_login_date
                   # users[req[s].user.id].last_login_date)
              <=> (BonusEarnings(req[s].user.id, earnings')
                      = BonusEarnings(req[s].user.id, earnings) + 1))]_vars

\* C18: api_withdraw submits a request exactly when the amount is at least
\* min_withdraw, at most the balance the call read for the account, and the
\* method is bkash, nagad or rocket.  A submitted request is one new row in
\* status pending; a denial adds no row; no account and no ledger entry
\* changes either way.
C18_WithdrawalAcceptedExactlyWhenValid ==
    [][\A s \in Slots :
          (At(s, "withdraw") /\ req'[s] # req[s])
          => LET valid == /\ req[s].arg >= min_withdraw
                          /\ req[s].arg <= req[s].user.balance
                          /\ req[s].str \in {"bkash", "nagad", "rocket"}
             IN /\ users' = users
                /\ earnings' = earnings
                /\ valid => /\ req'[s].res = "submitted"
                            /\ Len(withdrawals') = Len(withdrawals) + 1
                            /\ \A w \in DOMAIN withdrawals :
                                  withdrawals'[w] = withdrawals[w]
                            /\ withdrawals'[Len(withdrawals')].status = "pending"
                            /\ withdrawals'[Len(withdrawals')].user_id = req[s].user.id
                            /\ withdrawals'[Len(withdrawals')].amount = req[s].arg
                /\ ~valid => /\ req'[s].res # "submitted"
                             /\ withdrawals' = withdrawals]_vars

\* A request of exactly min_withdraw against a balance of exactly
\* min_withdraw has been submitted and is pending.
C18_MinimumWithdrawalSubmitted ==
    \E s \in Slots :
        /\ req[s].pc = "done"
        /\ req[s].op = "withdraw"
        /\ req[s].res = "submitted"
        /\ req[s].arg = min_withdraw
        /\ req[s].user.balance = min_withdraw
        /\ withdrawals[Len(withdrawals)].status = "pending"

\* C19: an approval of a pending request whose owner's balance covers the
\* amount returns success and, in one step, marks the request approved with
\* the admin's id, the time and the notes, lowers the owner's balance and
\* raises the owner's total_withdrawn by the amount, and changes no other
\* account, no other column of the owner and no other request.
C19_ApprovalDeductsOnce ==
    [][\A s \in Slots : \A w \in DOMAIN withdrawals :
          (/\ Resolves(s, w, "approve")
           /\ withdrawals[w].status = "pending"
           /\ users[withdrawals[w].user_id].balance >= withdrawals[w].amount)
          => LET o == withdrawals[w].user_id IN
             /\ req'[s].res = "approved"
             /\ withdrawals'[w].admin_notes \in Notes
             /\ withdrawals'[w] = [withdrawals[w] EXCEPT
                                      !.status = "approved",
                                      !.approved_by = req[s].user.id,
                                      !.approved_at = now,
                                      !.admin_notes = withdrawals'[w].admin_notes]
             /\ \A v \in DOMAIN withdrawals \ {w} : withdrawals'[v] = withdrawals[v]
             /\ Len(withdrawals') = Len(withdrawals)
             /\ users'[o] = [users[o] EXCEPT
                                !.balance = @ - withdrawals[w].amount,
                                !.total_withdrawn = @ + withdrawals[w].amount]
             /\ \A j \in UserIds \ {o} : users'[j] = users[j]
             /\ earnings' = earnings]_vars

\* A request that was pending when the admin approved it is approved, its
\* owner's total_withdrawn is the amount and the balance is not negative.
C19_PendingRequestApproved ==
    \E s \in Slots :
        /\ req[s].pc = "done"
        /\ req[s].op = "process_withdrawal"
        /\ req[s].str = "approve"
        /\ req[s].n = 1
        /\ req[s].res = "approved"
        /\ withdrawals[req[s].arg].status = "approved"
        /\ withdrawals[req[s].arg].approved_by = req[s].user.id
        /\ users[withdrawals[req[s].arg].user_id].total_withdrawn
              = withdrawals[req[s].arg].amount
        /\ users[withdrawals[req[s].arg].user_id].balance >= 0

\* C20: a rejection marks the request rejected with the admin's id, the
\* time and the notes and changes no account, no ledger entry and no other
\* request.
C20_RejectionChangesOnlyTheRequest ==
    [][\A s \in Slots :
          (\E w \in 1..MaxWithdrawals : Resolves(s, w, "reject"))
          => (/\ users' = users
              /\ earnings' = earnings
              /\ Len(withdrawals') = Len(withdrawals)
              /\ \A v \in DOMAIN withdrawals :
                    IF v = req[s].arg
                    THEN /\ withdrawals'[v].status = "rejected"
                         /\ withdrawals'[v].approved_by = req[s].user.id
                         /\ withdrawals'[v].approved_at = now
                         /\ withdrawals'[v].admin_notes \in Notes
                         /\ withdrawals'[v].user_id = withdrawals[v].user_id
                         /\ withdrawals'[v].amount = withdrawals[v].amount
                    ELSE withdrawals'[v] = withdrawals[v])]_vars

\* A pending request of an account with money has been rejected.
C20_PendingRequestRejected ==
    \E s \in Slots :
        /\ req[s].pc = "done"
        /\ req[s].op = "process_withdrawal"
        /\ req[s].str = "reject"
        /\ req[s].n = 1
        /\ req[s].res = "rejected"
        /\ withdrawals[req[s].arg].status = "rejected"
        /\ users[withdrawals[req[s].arg].user_id].balance
              = withdrawals[req[s].arg].amount
        /\ users[withdrawals[req[s].arg].user_id].total_withdrawn = 0

\* C21: a resolution whose notification to the user failed reports
\* success and leaves the request and the owner's account as a resolution
\* with a delivered notification does: the request in the target status,
\* the amount moved from balance to total_withdrawn on approve, nothing
\* moved on reject.
C21_NotificationFailureKeepsTransition ==
    [][\A s \in Slots : \A w \in DOMAIN withdrawals :
          (/\ Resolves(s, w, "approve") \/ Resolves(s, w, "reject")
           /\ req'[s].sent = 0)
          => LET o == withdrawals[w].user_id
                 moved == IF req[s].str = "approve" THEN withdrawals[w].amount ELSE 0
             IN /\ req'[s].res = (IF req[s].str = "approve" THEN "approved"
                                                              ELSE "rejected")
                /\ withdrawals'[w].status = req'[s].res
                /\ users'[o].balance = users[o].balance - moved
                /\ users'[o].total_withdrawn = users[o].total_withdrawn + moved]_vars

\* An approval of a pending request whose notification failed has been
\* reported as approved, with the amount withdrawn.
C21_ApprovedWithoutNotification ==
    \E s \in Slots :
        /\ req[s].pc = "done"
        /\ req[s].op = "process_withdrawal"
        /\ req[s].str = "approve"
        /\ req[s].n = 1
        /\ req[s].sent = 0
        /\ req[s].res = "approved"
        /\ withdrawals[req[s].arg].status = "approved"
        /\ users[withdrawals[req[s].arg].user_id].total_withdrawn
              = withdrawals[req[s].arg].amount

\* The new-user branch in slot s creates an account.
Creates(s) ==
    /\ At(s, "user_insert")
    /\ req'[s].pc # "user_insert"
    /\ Len(users') = Len(users) + 1

\* C22: creating an account with the referral code of an existing account
\* adds one referral row from that account's id to the new account's id,
\* active and unpaid, and raises the referrer's two counters by one.
C22_ReferralEdgeOnCreation ==
    [][\A s \in Slots :
          (Creates(s) /\ req[s].code # NULL /\ SelectIdByReferralCode(req[s].code) # 0)
          => LET a == SelectIdByReferralCode(req[s].code)
                 new == Len(users')
             IN /\ users'[new].referred_by = a
                /\ Len(referrals') = Len(referrals) + 1
                /\ referrals'[Len(referrals')]
                      = [referrer_id |-> a, referred_id |-> users'[new].id,
                         is_active |-> TRUE, bonus_paid |-> FALSE]
                /\ users'[a].referral_count = users[a].referral_count + 1
                /\ users'[a].active_referrals = users[a].active_referrals + 1]_vars

\* C23: add_earning of type referral for a referral row whose bonus_paid is
\* already TRUE writes nothing, and bonus_paid never returns to FALSE.
C23_ReferralBonusPaidOnce ==
    [][/\ \A s \in Slots :
             (/\ req[s].pc = "idle"
              /\ req'[s].op = "add_earning"
              /\ req'[s].n \in DOMAIN referrals
              /\ referrals[req'[s].n].bonus_paid)
             => db' = db
       /\ \A r \in DOMAIN referrals :
             referrals[r].bonus_paid => referrals'[r].bonus_paid]_vars

\* C24: creating an account with a referral code that belongs to no
\* account (the creator's own future code included) creates the account
\* with no referrer, adds no referral row and changes no other account;
\* and no account is its own referrer.
C24_InvalidReferralIgnored ==
    [][/\ \A s \in Slots :
             (/\ At(s, "user_insert")
              /\ req'[s].pc # "user_insert"
              /\ SelectUserByTelegramId(req[s].tg).id = 0
              /\ req[s].code # NULL
              /\ SelectIdByReferralCode(req[s].code) = 0)
             => (/\ Len(users') = Len(users) + 1
                 /\ users'[Len(users')].telegram_id = req[s].tg
                 /\ users'[Len(users')].referred_by = NULL
                 /\ referrals' = referrals
                 /\ \A i \in UserIds : users'[i] = users[i])
       /\ \A i \in DOMAIN users' : users'[i].referred_by # users'[i].id]_vars

\* An account created by /start with its creator's own identity as the
\* code exists without referrer, and there is no referral row.
C24_CreatedWithInvalidCode ==
    \E s \in Slots :
        /\ req[s].pc = "done"
        /\ req[s].op = "start"
        /\ req[s].res = "created"
        /\ req[s].code = req[s].tg
        /\ req[s].user.id = Len(users)
        /\ users[Len(users)].telegram_id = req[s].tg
        /\ users[Len(users)].referred_by = NULL
        /\ referrals = << >>

\* C25: a get_or_create_user call that found no account for its identity
\* ends with an account of that identity in its hands, also when another
\* call created the account in between: it does not end in an error.
C25_ConcurrentCreationResolved ==
    [][\A s \in Slots :
          (At(s, "user_insert") /\ req'[s].pc # "user_insert")
          => (/\ req'[s].res # "IntegrityError"
              /\ req'[s].user.telegram_id = req[s].tg)]_vars

\* C26: resolving a request id that does not exist is not reported as
\* approved or rejected, and changes no table.
C26_UnknownRequestReported ==
    [][\A s \in Slots :
          (/\ At(s, "process_withdrawal")
           /\ req'[s].pc = "done"
           /\ req[s].arg \notin DOMAIN withdrawals)
          => (/\ req'[s].res \notin {"approved", "rejected"}
              /\ db' = db)]_vars

\* C29: every account's total_withdrawn is the sum of the amounts of its
\* approved withdrawal requests.
C29_TotalWithdrawnIsApprovedSum ==
    \A i \in UserIds : users[i].total_withdrawn = ApprovedSum(i)

\* C27: the record get_or_create_user returns for an existing account
\* carries the login_streak, last_login_date and balance stored when the
\* call commits.
C27_ReturnsCurrentSnapshot ==
    [][\A s \in Slots :
          Touches(s)
          => (/\ req'[s].user.login_streak = users'[req[s].user.id].login_streak
              /\ req'[s].user.last_login_date = users'[req[s].user.id].last_login_date
              /\ req'[s].user.balance = users'[req[s].user.id].balance)]_vars

\* C28: a cooldown denial reports the whole seconds left of the cooldown,
\* rounded up: at least 1, and equal to ad_cooldown less the seconds the
\* handler's clock counts since last_ad_watch, so that a call made that many
\* seconds later is out of the cooldown.
C28_DenialReportsSecondsLeft ==
    [][\A s \in Slots :
          (/\ At(s, "watch_ad_read")
           /\ req'[s].pc = "done"
           /\ req'[s].res = "Please wait")
          => (/\ req'[s].n >= 1
              /\ req'[s].n = ad_cooldown
                               - (PyNow - users[req[s].user.id].last_ad_watch)
              /\ (PyNow + req'[s].n) - users[req[s].user.id].last_ad_watch
                    >= ad_cooldown)]_vars

\* C30: a get_or_create_user call for an identity that already has an
\* account, with or without a referral code, adds no referral row, creates
\* no account, and leaves referred_by, referral_count and active_referrals
\* of every account as they were; and no step at all changes the
\* referred_by of an account that exists.
C30_ExistingIdentityKeepsReferral ==
    [][/\ \A s \in Slots :
             Touches(s)
             => (/\ referrals' = referrals
                 /\ Len(users') = Len(users)
                 /\ \A i \in UserIds :
                       /\ users'[i].referral_count = users[i].referral_count
                       /\ users'[i].active_referrals = users[i].active_referrals)
       /\ \A i \in UserIds : users'[i].referred_by = users[i].referred_by]_vars

\* A /start of an existing account with another account's referral code has
\* finished, and the account still has no referrer and no referral row.
C30_ExistingStartedWithValidCode ==
    \E s \in Slots :
        /\ req[s].pc = "done"
        /\ req[s].op = "start"
        /\ req[s].res = "ok"
        /\ req[s].code # NULL
        /\ SelectIdByReferralCode(req[s].code) \notin {0, req[s].user.id}
        /\ users[req[s].user.id].referred_by = NULL
        /\ users[SelectIdByReferralCode(req[s].code)].referral_count = 0
        /\ referrals = << >>

\* C31: an admin's ban call on an existing account negates is_banned of
\* that account and changes nothing else: every other column of the row,
\* every other account and every other table stay as they were, and the
\* same call applied to the result gives back the accounts it started from.
C31_BanTogglesFlagOnly ==
    [][\A s \in Slots :
          (/\ req[s].pc = "idle"
           /\ req'[s].pc = "done"
           /\ req'[s].op = "ban"
           /\ req'[s].tg \in ADMIN_IDS
           /\ req'[s].arg \in UserIds)
          => LET user_id == req'[s].arg IN
             /\ users'[user_id].is_banned = ~users[user_id].is_banned
             /\ users' = [users EXCEPT ![user_id].is_banned = ~@]
             /\ ToggleBan(users', user_id) = users
             /\ <<earnings, tasks, user_tasks, referrals, withdrawals>>'
                  = <<earnings, tasks, user_tasks, referrals, withdrawals>>]_vars

\* An admin's ban call on a banned account has finished and the account,
\* which has earned from an ad, is not banned any more.
C31_BannedAccountUnbanned ==
    \E s \in Slots :
        /\ req[s].pc = "done"
        /\ req[s].op = "ban"
        /\ req[s].res = "unbanned"
        /\ req[s].arg \in UserIds
        /\ ~users[req[s].arg].is_banned
        /\ users[req[s].arg].balance > 0

====
